---- MODULE Spec2Model ----
(***************************************************************************)
(* Voice Translation Companion: the single-shot translation pipelines      *)
(* (voice, text, image), the translation history kept in React state and   *)
(* in AsyncStorage, the favorite toggle and the connectivity signal of     *)
(* the App component.                                                      *)
(*                                                                         *)
(* A text is a sequence of one-character strings.  Every async handler is  *)
(* cut at its awaits: an action is the code that runs from one await to    *)
(* the next.  A handler reads the state of the render that created it, so  *)
(* each invocation carries the values its closure captured.                *)
(***************************************************************************)
EXTENDS Integers, Sequences, FiniteSets

\* ------------------------------------------------------------------ bounds
MaxInv == 2        \* invocations in flight at once
MaxRuns == 2       \* invocations started in one behaviour
MaxClock == 2      \* largest value of Date.now()

Slots == 1..MaxInv

\* ------------------------------------------------------------------ texts
auto == <<"a", "u", "t", "o">>
en == <<"e", "n">>
es == <<"e", "s">>
fr == <<"f", "r">>

IsSpace(c) == c \in {" ", "\n", "\t"}

RECURSIVE TrimStart(_)
TrimStart(s) ==
  IF s = <<>> THEN <<>>
  ELSE IF IsSpace(Head(s)) THEN TrimStart(Tail(s)) ELSE s

RECURSIVE TrimEnd(_)
TrimEnd(s) ==
  IF s = <<>> THEN <<>>
  ELSE IF IsSpace(s[Len(s)]) THEN TrimEnd(SubSeq(s, 1, Len(s) - 1)) ELSE s

\* String.prototype.trim
Trim(s) == TrimEnd(TrimStart(s))

UpperCase == <<"A", "B", "C", "D", "E", "F", "G", "H", "I", "J", "K", "L", "M",
               "N", "O", "P", "Q", "R", "S", "T", "U", "V", "W", "X", "Y", "Z">>
LowerCase == <<"a", "b", "c", "d", "e", "f", "g", "h", "i", "j", "k", "l", "m",
               "n", "o", "p", "q", "r", "s", "t", "u", "v", "w", "x", "y", "z">>

LowerChar(c) ==
  IF \E i \in 1..Len(UpperCase) : UpperCase[i] = c
  THEN LowerCase[CHOOSE i \in 1..Len(UpperCase) : UpperCase[i] = c]
  ELSE c

\* String.prototype.toLowerCase
ToLowerCase(s) == [i \in 1..Len(s) |-> LowerChar(s[i])]

NotStar(c) == c # "*"

\* .replace(/\*+/g, '')
StripStars(s) == SelectSeq(s, NotStar)

\* .split('\n')
RECURSIVE SplitLines(_)
SplitLines(s) ==
  IF \A i \in 1..Len(s) : s[i] # "\n" THEN <<s>>
  ELSE LET k == CHOOSE i \in 1..Len(s) :
                   s[i] = "\n" /\ \A j \in 1..(i - 1) : s[j] # "\n"
       IN <<SubSeq(s, 1, k - 1)>> \o SplitLines(SubSeq(s, k + 1, Len(s)))

NonEmptyLine(tip) == Len(tip) > 0
NonBlankLine(tip) == Trim(tip) # <<>>

\* result.response.text().trim()
CleanText(raw) == Trim(raw)

\* result.response.text().trim().replace(/\*+/g, '')
CleanTranslation(raw) == StripStars(Trim(raw))

\* ....split('\n').filter(tip => tip.length > 0)
CleanTips(raw) == SelectSeq(SplitLines(StripStars(Trim(raw))), NonEmptyLine)

\* ....split('\n').filter(tip => tip.trim())
CleanTipsOCR(raw) == SelectSeq(SplitLines(StripStars(Trim(raw))), NonBlankLine)

\* detectResult.response.text().trim().toLowerCase()
CleanLang(raw) == ToLowerCase(Trim(raw))

Digits == <<"0", "1", "2", "3", "4", "5", "6", "7", "8", "9">>

\* Number.prototype.toString
RECURSIVE toString(_)
toString(n) ==
  IF n < 10 THEN <<Digits[n + 1]>>
  ELSE toString(n \div 10) \o <<Digits[(n % 10) + 1]>>

\* ------------------------------------------------------------------ inputs
\* the language picker: 'auto' is offered for the source only
SourceChoices == {auto, en}
TargetChoices == {es, fr}

\* what the user may type into the text field
TextInputs == {<<>>, <<"h", "i">>}

\* a text of spaces the user may enter
BlankInputs == {<<" ">>}

\* raw texts the generative model may answer with
TranscribeOut == {<<" ", "h", "o", "\n">>}
ExtractOut == {<<"o", "k", " ">>, <<" ">>}
DetectOut == {<<" ", "F", "r", "\n">>}
TranslateOut == {<<"*", "*", "y", "a", "*">>}
TipsOut == {<<"*", "a", "\n", " ", "\n", "\n", "b">>}

\* ------------------------------------------------------------------ records
\* TranslationHistoryItem
Item(id, src, tr, tips, sl, tl, ts, fav) ==
  [id |-> id, transcribedText |-> src, translatedText |-> tr,
   culturalTips |-> tips, sourceLang |-> sl, targetLang |-> tl,
   timestamp |-> ts, isFavorite |-> fav]

\* JSON.stringify of the history: every item becomes its list of members
StringifyItem(it) ==
  << <<"id", it.id>>, <<"transcribedText", it.transcribedText>>,
     <<"translatedText", it.translatedText>>,
     <<"culturalTips", it.culturalTips>>, <<"sourceLang", it.sourceLang>>,
     <<"targetLang", it.targetLang>>, <<"timestamp", it.timestamp>>,
     <<"isFavorite", it.isFavorite>> >>

JSONstringify(h) == [i \in 1..Len(h) |-> StringifyItem(h[i])]

Member(obj, key) == obj[CHOOSE i \in 1..Len(obj) : obj[i][1] = key][2]

ParseItem(obj) ==
  Item(Member(obj, "id"), Member(obj, "transcribedText"),
       Member(obj, "translatedText"), Member(obj, "culturalTips"),
       Member(obj, "sourceLang"), Member(obj, "targetLang"),
       Member(obj, "timestamp"), Member(obj, "isFavorite"))

\* JSON.parse
JSONparse(json) == [i \in 1..Len(json) |-> ParseItem(json[i])]

\* AsyncStorage keys the component uses
HistoryKey == "@translation_history"
OcrHistoryKey == "translationHistory"
StorageKeys == {HistoryKey, OcrHistoryKey}

NoValue == [present |-> FALSE, json |-> <<>>]
Stored(json) == [present |-> TRUE, json |-> json]

\* a record saved by an earlier session
OldItem ==
  Item(toString(0), <<"o", "l", "d">>, <<"v", "i", "e">>, <<>>, en, es, 0, TRUE)

\* ------------------------------------------------------------------ state
VARIABLES
  history,          \* useState: the translation history shown in the History view
  storage,          \* AsyncStorage: key -> stored value
  isOffline,        \* useState, set by the NetInfo listener
  sourceLang,       \* useState
  targetLang,       \* useState
  textToTranslate,  \* useState: the text field
  transcribedText,  \* useState: displayed transcript
  translatedText,   \* useState: displayed translation
  culturalTips,     \* useState: displayed tips
  ocrText,          \* useState: displayed extracted text
  isLoading,        \* useState
  isProcessingOCR,  \* useState
  recording,        \* useState: TRUE iff a recording object is held
  alert,            \* the Alert.alert raised by the step just taken, or "none"
  now,              \* the last value read from Date.now()
  runs,             \* invocations started so far
  inv,              \* slot -> the invocation running there, with its closure
  load,             \* the loadHistory call of the mount effect
  conversationHistory,        \* useState: the turns of the Live Conversation
  activeConversationSpeaker,  \* useState: 'A' or 'B'
  aiConversationMode,         \* useState: AI replies on or off
  conv,             \* slot -> the stopConversationRecording call running there
  tally,            \* history variable: what the conversation went through
  utterances,       \* the speech synthesizer: the utterance playing, then the queued ones
  talk,             \* slot -> the speak call running or scheduled there
  platform          \* "web" or "native", known from the first speak call on

\* the state of the Live Conversation view and of the speech synthesizer
convVars == <<conversationHistory, activeConversationSpeaker,
              aiConversationMode, conv, tally, utterances, talk, platform>>

vars == <<history, storage, isOffline, sourceLang, targetLang, textToTranslate,
          transcribedText, translatedText, culturalTips, ocrText, isLoading,
          isProcessingOCR, recording, alert, now, runs, inv, load, convVars>>

NoInv ==
  [kind |-> "none", pc |-> "idle", history |-> <<>>, sourceLang |-> <<>>,
   targetLang |-> <<>>, textToTranslate |-> <<>>, text |-> <<>>, lang |-> <<>>,
   translated |-> <<>>, tips |-> <<>>, writeOk |-> TRUE, hist0 |-> <<>>]

\* the values a handler created by the current render sees
\* (hist0 is a history variable: the history when the invocation was triggered)
Closure(kind, pc) ==
  [NoInv EXCEPT !.kind = kind, !.pc = pc, !.history = history,
                !.sourceLang = sourceLang, !.targetLang = targetLang,
                !.textToTranslate = textToTranslate, !.hist0 = history]

CanStart == runs < MaxRuns /\ \E p \in Slots : inv[p].kind = "none"
NewSlot ==
  CHOOSE p \in Slots :
    inv[p].kind = "none" /\ \A q \in Slots : q < p => inv[q].kind # "none"

\* an awaited call either rejects or resolves with one of the texts
Responses(S) ==
  {[ok |-> FALSE, text |-> <<>>]} \cup {[ok |-> TRUE, text |-> t] : t \in S}

\* no stopConversationRecording call: the fields are what its closure captured
\* (speaker, aiMode, conversationHistory, sourceLang, targetLang), what it
\* has computed (fromLang, toLang, text, translated, reply, context) and the
\* turn it has appended (item); cleared is a history variable: the
\* conversation has been cleared since the call was triggered
NoConv ==
  [pc |-> "idle", cleared |-> FALSE, speaker |-> "A", aiMode |-> FALSE,
   conversationHistory |-> <<>>, sourceLang |-> <<>>, targetLang |-> <<>>,
   fromLang |-> <<>>, toLang |-> <<>>, text |-> <<>>, translated |-> <<>>,
   reply |-> <<>>, context |-> <<>>, item |-> <<>>]

\* no speak call: origin is "user" for a press of a speaker button and "ai"
\* for the setTimeout of generateAIResponse
NoTalk == [pc |-> "idle", origin |-> "user", text |-> <<>>]

\* the step raises no Alert.alert / raises one
Quiet == alert' = "none"
Raise(msg) == alert' = msg

Init ==
  /\ history = <<>>
  /\ storage \in {[k \in StorageKeys |-> NoValue],
                  [k \in StorageKeys |->
                     IF k = HistoryKey THEN Stored(JSONstringify(<<OldItem>>))
                     ELSE NoValue]}
  /\ isOffline = FALSE
  /\ sourceLang = en
  /\ targetLang = es
  /\ textToTranslate = <<>>
  /\ transcribedText = <<>>
  /\ translatedText = <<>>
  /\ culturalTips = <<>>
  /\ ocrText = <<>>
  /\ isLoading = FALSE
  /\ isProcessingOCR = FALSE
  /\ recording = FALSE
  /\ alert = "none"
  /\ now = 1
  /\ runs = 0
  /\ inv = [p \in Slots |-> NoInv]
  /\ load = [pc |-> "await_getItem", value |-> storage[HistoryKey]]
  /\ conversationHistory = <<>>
  /\ activeConversationSpeaker = "A"
  /\ aiConversationMode = TRUE
  /\ conv = [p \in Slots |-> NoConv]
  /\ tally = [humans |-> 0, withAI |-> 0, cleared |-> FALSE]
  /\ utterances = <<>>
  /\ talk = [q \in Slots |-> NoTalk]
  /\ platform = "unknown"

\* ------------------------------------------------------------------ environment
\* NetInfo listener: setIsOffline(!state.isConnected)
NetInfoChange ==
  /\ isOffline' = ~isOffline
  /\ Quiet
  /\ UNCHANGED <<history, storage, sourceLang, targetLang, textToTranslate,
                 transcribedText, translatedText, culturalTips, ocrText,
                 isLoading, isProcessingOCR, recording, now, runs, inv,
                 load>>
  /\ UNCHANGED convVars

onSelectLang(editingLang, langValue) ==
  /\ \/ editingLang = "source" /\ langValue \in SourceChoices
        /\ langValue # sourceLang
        /\ sourceLang' = langValue /\ UNCHANGED targetLang
     \/ editingLang = "target" /\ langValue \in TargetChoices
        /\ langValue # targetLang
        /\ targetLang' = langValue /\ UNCHANGED sourceLang
  /\ Quiet
  /\ UNCHANGED <<history, storage, isOffline, textToTranslate, transcribedText,
                 translatedText, culturalTips, ocrText, isLoading,
                 isProcessingOCR, recording, now, runs, inv, load>>
  /\ UNCHANGED convVars

setTextToTranslate(t) ==
  /\ t # textToTranslate
  /\ textToTranslate' = t
  /\ Quiet
  /\ UNCHANGED <<history, storage, isOffline, sourceLang, targetLang,
                 transcribedText, translatedText, culturalTips, ocrText,
                 isLoading, isProcessingOCR, recording, now, runs, inv,
                 load>>
  /\ UNCHANGED convVars

\* ------------------------------------------------------------------ history store
\* the continuation of loadHistory after AsyncStorage.getItem
loadHistory ==
  /\ load.pc = "await_getItem"
  /\ \E ok \in BOOLEAN :
       history' = IF ok /\ load.value.present
                  THEN JSONparse(load.value.json) ELSE history
  /\ load' = [load EXCEPT !.pc = "done"]
  /\ Quiet
  /\ UNCHANGED <<storage, isOffline, sourceLang, targetLang, textToTranslate,
                 transcribedText, translatedText, culturalTips, ocrText,
                 isLoading, isProcessingOCR, recording, now, runs, inv>>
  /\ UNCHANGED convVars

\* variant of ToggleMap that flips the star of every item (sensitivity of C9)
ToggleMapMutant(h, id) ==
  [i \in 1..Len(h) |-> [h[i] EXCEPT !.isFavorite = ~h[i].isFavorite]]

\* history.map(item => item.id === id ? {...item, isFavorite: !item.isFavorite} : item)
ToggleMap(h, id) ==
  [i \in 1..Len(h) |->
     IF h[i].id = id THEN [h[i] EXCEPT !.isFavorite = ~h[i].isFavorite]
     ELSE h[i]]

\* AsyncStorage.setItem(key, json): the write is done or it rejects
SetItem(key, json, ok) ==
  storage' = IF ok THEN [storage EXCEPT ![key] = Stored(json)] ELSE storage

\* variant of toggleFavorite that sets the star instead of flipping it
\* (sensitivity of C10)
toggleFavoriteMutant(id) ==
  /\ history' = [i \in 1..Len(history) |->
                   IF history[i].id = id
                   THEN [history[i] EXCEPT !.isFavorite = TRUE]
                   ELSE history[i]]
  /\ \E ok \in BOOLEAN : SetItem(HistoryKey, JSONstringify(history'), ok)
  /\ Quiet
  /\ UNCHANGED <<isOffline, sourceLang, targetLang, textToTranslate,
                 transcribedText, translatedText, culturalTips, ocrText,
                 isLoading, isProcessingOCR, recording, now, runs, inv,
                 load>>
  /\ UNCHANGED convVars

toggleFavorite(id) ==
  /\ history' = ToggleMap(history, id)
  /\ \E ok \in BOOLEAN :
       SetItem(HistoryKey, JSONstringify(ToggleMap(history, id)), ok)
  /\ Quiet
  /\ UNCHANGED <<isOffline, sourceLang, targetLang, textToTranslate,
                 transcribedText, translatedText, culturalTips, ocrText,
                 isLoading, isProcessingOCR, recording, now, runs, inv,
                 load>>
  /\ UNCHANGED convVars

\* ------------------------------------------------------------------ pipelines
Free(p) == [inv EXCEPT ![p] = NoInv]

\* the item saveTranslation and translateExtractedText build: Date.now() twice
NewItem(src, tr, tips, sl, tl, t1, t2) ==
  Item(toString(t1), src, tr, tips, sl, tl, t2, FALSE)

\* variant of Prepend that puts the new item last (sensitivity of C1)
PrependMutant(item, h) == h \o <<item>>

\* [newHistoryItem, ...history]
Prepend(item, h) == <<item>> \o h

\* Date.now() is read twice in one synchronous run, for the id and for the
\* timestamp: both readings return the same value, no earlier than the last
\* value read (now)
ClockReadings == {<<t, t>> : t \in now..MaxClock}

\* ---- voice: startRecording / stopRecording
\* (the microphone permission is granted and the recorder starts)
startRecording ==
  /\ ~isOffline
  /\ ~recording
  /\ recording' = TRUE
  /\ Quiet
  /\ UNCHANGED <<history, storage, isOffline, sourceLang, targetLang,
                 textToTranslate, transcribedText, translatedText, culturalTips,
                 ocrText, isLoading, isProcessingOCR, now, runs, inv, load>>
  /\ UNCHANGED convVars

\* the press: setRecording(null); await recording.stopAndUnloadAsync()
stopRecording ==
  /\ ~isOffline
  /\ recording
  /\ CanStart
  /\ recording' = FALSE
  /\ inv' = [inv EXCEPT ![NewSlot] = Closure("voice", "await_stop")]
  /\ runs' = runs + 1
  /\ Quiet
  /\ UNCHANGED <<history, storage, isOffline, sourceLang, targetLang,
                 textToTranslate, transcribedText, translatedText, culturalTips,
                 ocrText, isLoading, isProcessingOCR, now, load>>
  /\ UNCHANGED convVars

\* variant of stopRecordingCatch that swallows the error (sensitivity of C5)
stopRecordingCatchMutant(p) ==
  /\ Quiet
  /\ isLoading' = FALSE
  /\ inv' = Free(p)

\* catch (err) { Alert.alert(...) } finally { setIsLoading(false) }
stopRecordingCatch(p) ==
  /\ Raise("Failed to process audio. Check your API key and network.")
  /\ isLoading' = FALSE
  /\ inv' = Free(p)

\* after stopAndUnloadAsync: the uri check, the resets, the audio file is
\* fetched and encoded, the transcription call is issued
stopRecording_stopped(p) ==
  /\ inv[p].kind = "voice" /\ inv[p].pc = "await_stop"
  /\ \E r \in {"ok", "nouri", "fetchfail"} :
       CASE r = "ok" ->
              /\ isLoading' = TRUE
              /\ transcribedText' = <<>>
              /\ translatedText' = <<>>
              /\ culturalTips' = <<>>
              /\ inv' = [inv EXCEPT ![p].pc = "await_transcribe"]
              /\ Quiet
         [] r = "nouri" ->
              /\ Raise("No audio recorded.")
              /\ inv' = Free(p)
              /\ UNCHANGED <<isLoading, transcribedText, translatedText,
                             culturalTips>>
         [] OTHER ->
              /\ transcribedText' = <<>>
              /\ translatedText' = <<>>
              /\ culturalTips' = <<>>
              /\ stopRecordingCatch(p)
  /\ UNCHANGED <<history, storage, isOffline, sourceLang, targetLang,
                 textToTranslate, ocrText, isProcessingOCR, recording, now,
                 runs, load>>
  /\ UNCHANGED convVars

\* variant of stopRecording_transcribed without setTranscribedText
\* (sensitivity of C4)
stopRecording_transcribedMutant(p) ==
  /\ inv[p].kind = "voice" /\ inv[p].pc = "await_transcribe"
  /\ \E r \in Responses(TranscribeOut) :
       IF r.ok
       THEN /\ inv' = [inv EXCEPT ![p].pc = "await_translate",
                                  ![p].text = CleanText(r.text)]
            /\ Quiet
            /\ UNCHANGED isLoading
       ELSE /\ stopRecordingCatch(p)
  /\ UNCHANGED <<history, storage, isOffline, sourceLang, targetLang,
                 textToTranslate, transcribedText, translatedText,
                 culturalTips, ocrText, isProcessingOCR, recording, now, runs,
                 load>>
  /\ UNCHANGED convVars

\* after the transcription call: setTranscribedText, the translation call is issued
stopRecording_transcribed(p) ==
  /\ inv[p].kind = "voice" /\ inv[p].pc = "await_transcribe"
  /\ \E r \in Responses(TranscribeOut) :
       IF r.ok
       THEN /\ transcribedText' = CleanText(r.text)
            /\ inv' = [inv EXCEPT ![p].pc = "await_translate",
                                  ![p].text = CleanText(r.text)]
            /\ Quiet
            /\ UNCHANGED isLoading
       ELSE /\ stopRecordingCatch(p)
            /\ UNCHANGED transcribedText
  /\ UNCHANGED <<history, storage, isOffline, sourceLang, targetLang,
                 textToTranslate, translatedText, culturalTips, ocrText,
                 isProcessingOCR, recording, now, runs, load>>
  /\ UNCHANGED convVars

\* after the translation call: setTranslatedText, the tips call is issued
stopRecording_translated(p) ==
  /\ inv[p].kind = "voice" /\ inv[p].pc = "await_translate"
  /\ \E r \in Responses(TranslateOut) :
       IF r.ok
       THEN /\ translatedText' = CleanTranslation(r.text)
            /\ inv' = [inv EXCEPT ![p].pc = "await_tips",
                                  ![p].translated = CleanTranslation(r.text)]
            /\ Quiet
            /\ UNCHANGED isLoading
       ELSE /\ stopRecordingCatch(p)
            /\ UNCHANGED translatedText
  /\ UNCHANGED <<history, storage, isOffline, sourceLang, targetLang,
                 textToTranslate, transcribedText, culturalTips, ocrText,
                 isProcessingOCR, recording, now, runs, load>>
  /\ UNCHANGED convVars

\* saveTranslation(item): setHistory([newHistoryItem, ...history]); setItem
saveTranslation(p, src, tr, tips, sl, tl) ==
  \E t \in ClockReadings, ok \in BOOLEAN :
    /\ now' = t[2]
    /\ history' = Prepend(NewItem(src, tr, tips, sl, tl, t[1], t[2]),
                          inv[p].history)
    /\ SetItem(HistoryKey,
               JSONstringify(Prepend(NewItem(src, tr, tips, sl, tl, t[1], t[2]),
                                     inv[p].history)),
               ok)
    /\ inv' = [inv EXCEPT ![p].pc = "await_save", ![p].tips = tips,
                          ![p].writeOk = ok]

\* after the tips call: setCulturalTips, then saveTranslation up to its await
stopRecording_tips(p) ==
  /\ inv[p].kind = "voice" /\ inv[p].pc = "await_tips"
  /\ \E r \in Responses(TipsOut) :
       IF r.ok
       THEN /\ culturalTips' = CleanTips(r.text)
            /\ saveTranslation(p, inv[p].text, inv[p].translated,
                               CleanTips(r.text), inv[p].sourceLang,
                               inv[p].targetLang)
            /\ Quiet
            /\ UNCHANGED isLoading
       ELSE /\ stopRecordingCatch(p)
            /\ UNCHANGED <<culturalTips, history, storage, now>>
  /\ UNCHANGED <<isOffline, sourceLang, targetLang, textToTranslate,
                 transcribedText, translatedText, ocrText, isProcessingOCR,
                 recording, runs, load>>
  /\ UNCHANGED convVars

\* after setItem settled (a rejection is logged): finally setIsLoading(false)
stopRecording_saved(p) ==
  /\ inv[p].kind = "voice" /\ inv[p].pc = "await_save"
  /\ isLoading' = FALSE
  /\ inv' = Free(p)
  /\ Quiet
  /\ UNCHANGED <<history, storage, isOffline, sourceLang, targetLang,
                 textToTranslate, transcribedText, translatedText, culturalTips,
                 ocrText, isProcessingOCR, recording, now, runs, load>>
  /\ UNCHANGED convVars

\* ---- text: translateText
\* variant of translateTextCatch without the finally (sensitivity of C25)
translateTextCatchMutant(p) ==
  /\ Raise("Failed to translate text. Check your API key and network.")
  /\ UNCHANGED isLoading
  /\ inv' = Free(p)

\* catch (err) { Alert.alert(...) } finally { setIsLoading(false) }
translateTextCatch(p) ==
  /\ Raise("Failed to translate text. Check your API key and network.")
  /\ isLoading' = FALSE
  /\ inv' = Free(p)

\* variant of translateText without the empty check (sensitivity of C21)
translateTextMutant ==
  /\ ~isOffline
  /\ CanStart
  /\ isLoading' = TRUE
  /\ translatedText' = <<>>
  /\ culturalTips' = <<>>
  /\ IF sourceLang = auto
     THEN /\ transcribedText' = <<>>
          /\ inv' = [inv EXCEPT ![NewSlot] = Closure("text", "await_detect")]
     ELSE /\ transcribedText' = textToTranslate
          /\ inv' = [inv EXCEPT
                       ![NewSlot] = [Closure("text", "await_translate")
                                       EXCEPT !.lang = sourceLang]]
  /\ runs' = runs + 1
  /\ Quiet
  /\ UNCHANGED <<history, storage, isOffline, sourceLang, targetLang,
                 textToTranslate, ocrText, isProcessingOCR, recording, now,
                 load>>
  /\ UNCHANGED convVars

\* the press: the empty check, the resets, then the first call is issued
translateText ==
  /\ ~isOffline
  /\ IF Trim(textToTranslate) = <<>>
     THEN /\ Raise("Please enter some text to translate.")
          /\ UNCHANGED <<isLoading, transcribedText, translatedText,
                         culturalTips, inv, runs>>
     ELSE /\ CanStart
          /\ isLoading' = TRUE
          /\ translatedText' = <<>>
          /\ culturalTips' = <<>>
          /\ IF sourceLang = auto
             THEN /\ transcribedText' = <<>>
                  /\ inv' = [inv EXCEPT
                               ![NewSlot] = Closure("text", "await_detect")]
             ELSE /\ transcribedText' = textToTranslate
                  /\ inv' = [inv EXCEPT
                               ![NewSlot] =
                                  [Closure("text", "await_translate")
                                     EXCEPT !.lang = sourceLang]]
          /\ runs' = runs + 1
          /\ Quiet
  /\ UNCHANGED <<history, storage, isOffline, sourceLang, targetLang,
                 textToTranslate, ocrText, isProcessingOCR, recording, now,
                 load>>
  /\ UNCHANGED convVars

\* after the detection call: detectedLang, setTranscribedText, translation call
translateText_detected(p) ==
  /\ inv[p].kind = "text" /\ inv[p].pc = "await_detect"
  /\ \E r \in Responses(DetectOut) :
       IF r.ok
       THEN /\ transcribedText' = inv[p].textToTranslate
            /\ inv' = [inv EXCEPT ![p].pc = "await_translate",
                                  ![p].lang = CleanLang(r.text)]
            /\ Quiet
            /\ UNCHANGED isLoading
       ELSE /\ translateTextCatch(p)
            /\ UNCHANGED transcribedText
  /\ UNCHANGED <<history, storage, isOffline, sourceLang, targetLang,
                 textToTranslate, translatedText, culturalTips, ocrText,
                 isProcessingOCR, recording, now, runs, load>>
  /\ UNCHANGED convVars

translateText_translated(p) ==
  /\ inv[p].kind = "text" /\ inv[p].pc = "await_translate"
  /\ \E r \in Responses(TranslateOut) :
       IF r.ok
       THEN /\ translatedText' = CleanTranslation(r.text)
            /\ inv' = [inv EXCEPT ![p].pc = "await_tips",
                                  ![p].translated = CleanTranslation(r.text)]
            /\ Quiet
            /\ UNCHANGED isLoading
       ELSE /\ translateTextCatch(p)
            /\ UNCHANGED translatedText
  /\ UNCHANGED <<history, storage, isOffline, sourceLang, targetLang,
                 textToTranslate, transcribedText, culturalTips, ocrText,
                 isProcessingOCR, recording, now, runs, load>>
  /\ UNCHANGED convVars

translateText_tips(p) ==
  /\ inv[p].kind = "text" /\ inv[p].pc = "await_tips"
  /\ \E r \in Responses(TipsOut) :
       IF r.ok
       THEN /\ culturalTips' = CleanTips(r.text)
            /\ saveTranslation(p, inv[p].textToTranslate, inv[p].translated,
                               CleanTips(r.text), inv[p].lang,
                               inv[p].targetLang)
            /\ Quiet
            /\ UNCHANGED isLoading
       ELSE /\ translateTextCatch(p)
            /\ UNCHANGED <<culturalTips, history, storage, now>>
  /\ UNCHANGED <<isOffline, sourceLang, targetLang, textToTranslate,
                 transcribedText, translatedText, ocrText, isProcessingOCR,
                 recording, runs, load>>
  /\ UNCHANGED convVars

\* after saveTranslation: setTextToTranslate(''); finally setIsLoading(false)
translateText_saved(p) ==
  /\ inv[p].kind = "text" /\ inv[p].pc = "await_save"
  /\ textToTranslate' = <<>>
  /\ isLoading' = FALSE
  /\ inv' = Free(p)
  /\ Quiet
  /\ UNCHANGED <<history, storage, isOffline, sourceLang, targetLang,
                 transcribedText, translatedText, culturalTips, ocrText,
                 isProcessingOCR, recording, now, runs, load>>
  /\ UNCHANGED convVars

\* ---- image: pickImageForOCR / openCamera / openGallery / processImageForOCR
\* (the media permissions are granted and the picker opens)
pickImageForOCR ==
  /\ ~isOffline
  /\ CanStart
  /\ inv' = [inv EXCEPT ![NewSlot] = Closure("image", "picking")]
  /\ runs' = runs + 1
  /\ Quiet
  /\ UNCHANGED <<history, storage, isOffline, sourceLang, targetLang,
                 textToTranslate, transcribedText, translatedText, culturalTips,
                 ocrText, isLoading, isProcessingOCR, recording, now, load>>
  /\ UNCHANGED convVars

processImageForOCRCatch(p) ==
  /\ Raise("Failed to process image. Check your API key and network connection.")
  /\ isProcessingOCR' = FALSE
  /\ inv' = Free(p)

\* the picker returns; with an asset processImageForOCR runs: its resets, the
\* image is fetched and encoded, the extraction call is issued
openGallery(p) ==
  /\ inv[p].kind = "image" /\ inv[p].pc = "picking"
  /\ \E r \in {"asset", "canceled", "fetchfail"} :
       CASE r = "asset" ->
              /\ isProcessingOCR' = TRUE
              /\ ocrText' = <<>>
              /\ inv' = [inv EXCEPT ![p].pc = "await_extract"]
              /\ Quiet
         [] r = "canceled" ->
              /\ inv' = Free(p)
              /\ Quiet
              /\ UNCHANGED <<isProcessingOCR, ocrText>>
         [] OTHER ->
              /\ ocrText' = <<>>
              /\ processImageForOCRCatch(p)
  /\ UNCHANGED <<history, storage, isOffline, sourceLang, targetLang,
                 textToTranslate, transcribedText, translatedText, culturalTips,
                 isLoading, recording, now, runs, load>>
  /\ UNCHANGED convVars

\* after the extraction call: setOcrText; translateExtractedText starts if any text
processImageForOCR_extracted(p) ==
  /\ inv[p].kind = "image" /\ inv[p].pc = "await_extract"
  /\ \E r \in Responses(ExtractOut) :
       IF r.ok
       THEN /\ ocrText' = CleanText(r.text)
            /\ IF CleanText(r.text) # <<>>
               THEN /\ isLoading' = TRUE
                    /\ inv' = [inv EXCEPT
                                 ![p].text = CleanText(r.text),
                                 ![p].lang = inv[p].sourceLang,
                                 ![p].pc = IF inv[p].sourceLang = auto
                                           THEN "await_detect"
                                           ELSE "await_translate"]
                    /\ Quiet
                    /\ UNCHANGED isProcessingOCR
               ELSE /\ isProcessingOCR' = FALSE
                    /\ inv' = Free(p)
                    /\ Quiet
                    /\ UNCHANGED isLoading
       ELSE /\ processImageForOCRCatch(p)
            /\ UNCHANGED <<ocrText, isLoading>>
  /\ UNCHANGED <<history, storage, isOffline, sourceLang, targetLang,
                 textToTranslate, transcribedText, translatedText, culturalTips,
                 recording, now, runs, load>>
  /\ UNCHANGED convVars

\* translateExtractedText: catch, finally, then the caller's finally
translateExtractedTextCatch(p) ==
  /\ Raise("Failed to translate extracted text.")
  /\ isLoading' = FALSE
  /\ isProcessingOCR' = FALSE
  /\ inv' = Free(p)

translateExtractedText_detected(p) ==
  /\ inv[p].kind = "image" /\ inv[p].pc = "await_detect"
  /\ \E r \in Responses(DetectOut) :
       IF r.ok
       THEN /\ inv' = [inv EXCEPT ![p].pc = "await_translate",
                                  ![p].lang = CleanLang(r.text)]
            /\ Quiet
            /\ UNCHANGED <<isLoading, isProcessingOCR>>
       ELSE /\ translateExtractedTextCatch(p)
  /\ UNCHANGED <<history, storage, isOffline, sourceLang, targetLang,
                 textToTranslate, transcribedText, translatedText, culturalTips,
                 ocrText, recording, now, runs, load>>
  /\ UNCHANGED convVars

translateExtractedText_translated(p) ==
  /\ inv[p].kind = "image" /\ inv[p].pc = "await_translate"
  /\ \E r \in Responses(TranslateOut) :
       IF r.ok
       THEN /\ inv' = [inv EXCEPT ![p].pc = "await_tips",
                                  ![p].translated = CleanTranslation(r.text)]
            /\ Quiet
            /\ UNCHANGED <<isLoading, isProcessingOCR>>
       ELSE /\ translateExtractedTextCatch(p)
  /\ UNCHANGED <<history, storage, isOffline, sourceLang, targetLang,
                 textToTranslate, transcribedText, translatedText, culturalTips,
                 ocrText, recording, now, runs, load>>
  /\ UNCHANGED convVars

\* the key translateExtractedText writes the history under
translateExtractedTextKey == OcrHistoryKey

\* after the tips call: the three setters, the new item, setHistory, setItem
translateExtractedText_tips(p) ==
  /\ inv[p].kind = "image" /\ inv[p].pc = "await_tips"
  /\ \E r \in Responses(TipsOut) :
       IF r.ok
       THEN /\ transcribedText' = inv[p].text
            /\ translatedText' = inv[p].translated
            /\ culturalTips' = CleanTipsOCR(r.text)
            /\ \E t \in ClockReadings, ok \in BOOLEAN :
                 LET updatedHistory ==
                       Prepend(NewItem(inv[p].text, inv[p].translated,
                                       CleanTipsOCR(r.text), inv[p].lang,
                                       inv[p].targetLang, t[1], t[2]),
                               inv[p].history)
                 IN /\ now' = t[2]
                    /\ history' = updatedHistory
                    /\ SetItem(translateExtractedTextKey,
                               JSONstringify(updatedHistory), ok)
                    /\ inv' = [inv EXCEPT ![p].pc = "await_save",
                                          ![p].tips = CleanTipsOCR(r.text),
                                          ![p].writeOk = ok]
            /\ Quiet
            /\ UNCHANGED <<isLoading, isProcessingOCR>>
       ELSE /\ translateExtractedTextCatch(p)
            /\ UNCHANGED <<transcribedText, translatedText, culturalTips,
                           history, storage, now>>
  /\ UNCHANGED <<isOffline, sourceLang, targetLang, textToTranslate, ocrText,
                 recording, runs, load>>
  /\ UNCHANGED convVars

\* after setItem settled: a rejection lands in the catch; then both finally
translateExtractedText_saved(p) ==
  /\ inv[p].kind = "image" /\ inv[p].pc = "await_save"
  /\ IF inv[p].writeOk THEN Quiet
     ELSE Raise("Failed to translate extracted text.")
  /\ isLoading' = FALSE
  /\ isProcessingOCR' = FALSE
  /\ inv' = Free(p)
  /\ UNCHANGED <<history, storage, isOffline, sourceLang, targetLang,
                 textToTranslate, transcribedText, translatedText, culturalTips,
                 ocrText, recording, now, runs, load>>
  /\ UNCHANGED convVars

\* ---- conversation: startConversationRecording / stopConversationRecording /
\* generateAIResponse / clearConversation
\* the tuple of the variables the conversation and the speech leave alone
pipelineVars ==
  <<history, storage, isOffline, sourceLang, targetLang, textToTranslate,
    transcribedText, translatedText, culturalTips, ocrText, isProcessingOCR,
    inv, load>>

\* raw texts the generative model may answer the transcription prompt of a
\* conversation turn with: a transcript, or nothing but a space
ConversationTranscribeOut == TranscribeOut \cup {<<" ">>}

\* raw texts the generative model may answer a reply prompt with
ReplyOut == {<<"s", "i", "*">>}

\* an item of conversationHistory
Turn(id, text, translation, speaker, timestamp) ==
  [id |-> id, text |-> text, translation |-> translation,
   speaker |-> speaker, timestamp |-> timestamp]

\* activeConversationSpeaker === 'A' ? 'B' : 'A'
Opposite(speaker) == IF speaker = "A" THEN "B" ELSE "A"

\* h.slice(-n)
Slice(h, n) ==
  IF Len(h) <= n THEN h ELSE SubSeq(h, Len(h) - n + 1, Len(h))

\* lines.join('\n')
RECURSIVE Join(_)
Join(lines) ==
  IF lines = <<>> THEN <<>>
  ELSE IF Len(lines) = 1 THEN lines[1]
  ELSE lines[1] \o <<"\n">> \o Join(Tail(lines))

\* `${item.speaker === 'A' ? 'User' : 'Assistant'}: ${item.translation}`
ContextLine(item) ==
  (IF item.speaker = "A" THEN <<"U", "s", "e", "r">>
   ELSE <<"A", "s", "s", "i", "s", "t", "a", "n", "t">>)
  \o <<":", " ">> \o item.translation

\* how many turns the reply prompt looks back
ContextSize == 4

\* conversationHistory.slice(-4).map(...).join('\n')
Context(h) ==
  LET last == Slice(h, ContextSize)
  IN Join([i \in 1..Len(last) |-> ContextLine(last[i])])

FreeConv(p) == [conv EXCEPT ![p] = NoConv]

CanStartTurn == runs < MaxRuns /\ \E p \in Slots : conv[p].pc = "idle"
NewConvSlot ==
  CHOOSE p \in Slots :
    conv[p].pc = "idle" /\ \A q \in Slots : q < p => conv[q].pc # "idle"

\* the speaker buttons
setActiveConversationSpeaker(speaker) ==
  /\ speaker # activeConversationSpeaker
  /\ activeConversationSpeaker' = speaker
  /\ Quiet
  /\ UNCHANGED <<conversationHistory, aiConversationMode, conv, tally,
                 utterances, talk, platform, isLoading, recording, now, runs>>
  /\ UNCHANGED pipelineVars

\* the AI button: setAiConversationMode(!aiConversationMode)
setAiConversationMode ==
  /\ aiConversationMode' = ~aiConversationMode
  /\ Quiet
  /\ UNCHANGED <<conversationHistory, activeConversationSpeaker, conv, tally,
                 utterances, talk, platform, isLoading, recording, now, runs>>
  /\ UNCHANGED pipelineVars

\* the 'Clear' option of the dialog of clearConversation:
\* setConversationHistory([])
clearConversation ==
  /\ conversationHistory' = <<>>
  /\ tally' = [tally EXCEPT !.cleared = TRUE]
  /\ conv' = [p \in Slots |->
                IF conv[p].pc = "idle" THEN conv[p]
                ELSE [conv[p] EXCEPT !.cleared = TRUE]]
  /\ Quiet
  /\ UNCHANGED <<activeConversationSpeaker, aiConversationMode, utterances,
                 talk, platform, isLoading, recording, now, runs>>
  /\ UNCHANGED pipelineVars

\* (the microphone permission is granted and the recorder starts)
startConversationRecording ==
  /\ ~isOffline
  /\ ~recording
  /\ recording' = TRUE
  /\ Quiet
  /\ UNCHANGED <<isLoading, now, runs>>
  /\ UNCHANGED convVars
  /\ UNCHANGED pipelineVars

\* the press: setRecording(null); await recording.stopAndUnloadAsync()
stopConversationRecording ==
  /\ ~isOffline
  /\ recording
  /\ CanStartTurn
  /\ recording' = FALSE
  /\ conv' = [conv EXCEPT
                ![NewConvSlot] =
                   [NoConv EXCEPT
                      !.pc = "await_stop",
                      !.speaker = activeConversationSpeaker,
                      !.aiMode = aiConversationMode,
                      !.conversationHistory = conversationHistory,
                      !.sourceLang = sourceLang,
                      !.targetLang = targetLang]]
  /\ runs' = runs + 1
  /\ Quiet
  /\ UNCHANGED <<conversationHistory, activeConversationSpeaker,
                 aiConversationMode, tally, utterances, talk, platform,
                 isLoading, now>>
  /\ UNCHANGED pipelineVars

\* variant of AppendTurn that keeps the new turn alone (sensitivity of C16)
AppendTurnMutant(prev, item) == <<item>>

\* setConversationHistory(prev => [...prev, item]): the update is applied to
\* the sequence of the moment it runs
AppendTurn(prev, item) == Append(prev, item)

\* variant of stopConversationRecordingCatch that swallows the error
\* (sensitivity of C12)
stopConversationRecordingCatchMutant(p) ==
  /\ Quiet
  /\ isLoading' = FALSE
  /\ conv' = FreeConv(p)

\* catch (err) { Alert.alert(...) } finally { setIsLoading(false) }
stopConversationRecordingCatch(p) ==
  /\ Raise("Failed to process audio. Check your API key and network.")
  /\ isLoading' = FALSE
  /\ conv' = FreeConv(p)

\* variant of FromLang that gives the source language to both speakers
\* (sensitivity of C26)
FromLangMutant(speaker, source, target) == source

\* activeConversationSpeaker === 'A' ? sourceLang : targetLang
FromLang(speaker, source, target) == IF speaker = "A" THEN source ELSE target

\* activeConversationSpeaker === 'A' ? targetLang : sourceLang
ToLang(speaker, source, target) == IF speaker = "A" THEN target ELSE source

\* after stopAndUnloadAsync: the uri check, setIsLoading(true), the audio file
\* is fetched and encoded, fromLang and toLang are determined, the
\* transcription call is issued
stopConversationRecording_stopped(p) ==
  /\ conv[p].pc = "await_stop"
  /\ \E r \in {"ok", "nouri", "fetchfail"} :
       CASE r = "ok" ->
              /\ isLoading' = TRUE
              /\ conv' = [conv EXCEPT
                            ![p].pc = "await_transcribe",
                            ![p].fromLang = FromLang(conv[p].speaker,
                                                     conv[p].sourceLang,
                                                     conv[p].targetLang),
                            ![p].toLang = ToLang(conv[p].speaker,
                                                 conv[p].sourceLang,
                                                 conv[p].targetLang)]
              /\ Quiet
         [] r = "nouri" ->
              /\ Raise("No audio recorded.")
              /\ conv' = FreeConv(p)
              /\ UNCHANGED isLoading
         [] OTHER -> stopConversationRecordingCatch(p)
  /\ UNCHANGED <<conversationHistory, activeConversationSpeaker,
                 aiConversationMode, tally, utterances, talk, platform,
                 recording, now, runs>>
  /\ UNCHANGED pipelineVars

\* after the transcription call: the translation call is issued
stopConversationRecording_transcribed(p) ==
  /\ conv[p].pc = "await_transcribe"
  /\ \E r \in Responses(ConversationTranscribeOut) :
       IF r.ok
       THEN /\ conv' = [conv EXCEPT ![p].pc = "await_translate",
                                    ![p].text = CleanText(r.text)]
            /\ Quiet
            /\ UNCHANGED isLoading
       ELSE stopConversationRecordingCatch(p)
  /\ UNCHANGED <<conversationHistory, activeConversationSpeaker,
                 aiConversationMode, tally, utterances, talk, platform,
                 recording, now, runs>>
  /\ UNCHANGED pipelineVars

\* after the translation call: the turn of the speaker is appended
\* (setConversationHistory(prev => [...prev, item])); with the AI mode on
\* generateAIResponse starts: the context, then the reply call is issued
stopConversationRecording_translated(p) ==
  /\ conv[p].pc = "await_translate"
  /\ \E r \in Responses(TranslateOut) :
       IF r.ok
       THEN \E t \in ClockReadings :
              LET item == Turn(toString(t[1]), conv[p].text, Trim(r.text),
                               conv[p].speaker, t[2])
              IN /\ now' = t[2]
                 /\ conversationHistory' = AppendTurn(conversationHistory, item)
                 /\ tally' = [tally EXCEPT
                                !.humans = @ + 1,
                                !.withAI = @ + IF conv[p].aiMode THEN 1 ELSE 0]
                 /\ IF conv[p].aiMode
                    THEN /\ conv' = [conv EXCEPT
                                       ![p].pc = "await_reply",
                                       ![p].translated = Trim(r.text),
                                       ![p].item = item,
                                       ![p].context =
                                          Context(conv[p].conversationHistory)]
                         /\ UNCHANGED isLoading
                    ELSE /\ isLoading' = FALSE
                         /\ conv' = FreeConv(p)
                 /\ Quiet
       ELSE /\ stopConversationRecordingCatch(p)
            /\ UNCHANGED <<conversationHistory, tally, now>>
  /\ UNCHANGED <<activeConversationSpeaker, aiConversationMode, utterances,
                 talk, platform, recording, runs>>
  /\ UNCHANGED pipelineVars

\* variant of generateAIResponseCatch that shows the error (sensitivity of
\* C13)
generateAIResponseCatchMutant(p) ==
  /\ Raise("Failed to process audio. Check your API key and network.")
  /\ isLoading' = FALSE
  /\ conv' = FreeConv(p)

\* catch (err) { console.error(...) } of generateAIResponse, then the finally
\* of stopConversationRecording
generateAIResponseCatch(p) ==
  /\ Quiet
  /\ isLoading' = FALSE
  /\ conv' = FreeConv(p)

\* after the reply call: the call that translates the reply back is issued
generateAIResponse_replied(p) ==
  /\ conv[p].pc = "await_reply"
  /\ \E r \in Responses(ReplyOut) :
       IF r.ok
       THEN /\ conv' = [conv EXCEPT ![p].pc = "await_translateBack",
                                    ![p].reply = CleanTranslation(r.text)]
            /\ Quiet
            /\ UNCHANGED isLoading
       ELSE generateAIResponseCatch(p)
  /\ UNCHANGED <<conversationHistory, activeConversationSpeaker,
                 aiConversationMode, tally, utterances, talk, platform,
                 recording, now, runs>>
  /\ UNCHANGED pipelineVars

NewTalkSlot ==
  CHOOSE q \in Slots :
    talk[q].pc = "idle" /\ \A r \in Slots : r < q => talk[r].pc # "idle"

\* after the back translation: the turn of the AI is appended, with
\* Date.now() + 1 for its id and its timestamp, and speak is scheduled
generateAIResponse_translatedBack(p) ==
  /\ conv[p].pc = "await_translateBack"
  /\ \E r \in Responses(TranslateOut) :
       IF r.ok
       THEN /\ \E q \in Slots : talk[q].pc = "idle"
            /\ \E t \in ClockReadings :
                 /\ now' = t[2]
                 /\ conversationHistory' =
                      AppendTurn(conversationHistory,
                                 Turn(toString(t[1] + 1), conv[p].reply,
                                      CleanTranslation(r.text),
                                      Opposite(conv[p].speaker), t[2] + 1))
            /\ talk' = [talk EXCEPT
                          ![NewTalkSlot] = [pc |-> "timer", origin |-> "ai",
                                            text |-> conv[p].reply]]
            /\ isLoading' = FALSE
            /\ conv' = FreeConv(p)
            /\ Quiet
       ELSE /\ generateAIResponseCatch(p)
            /\ UNCHANGED <<conversationHistory, talk, now>>
  /\ UNCHANGED <<activeConversationSpeaker, aiConversationMode, tally,
                 utterances, platform, recording, runs>>
  /\ UNCHANGED pipelineVars

\* ---- speech: speak
\* 'speechSynthesis' in window: the same answer at every call
Platforms == IF platform = "unknown" THEN {"web", "native"} ELSE {platform}

\* speak(text, language) in slot q, up to its end on the web and up to
\* await Speech.getAvailableVoicesAsync() otherwise.  Speech.stop() and
\* synth.cancel() empty the synthesizer; an exception after them lands in
\* the catch.
speak(q, origin, text) ==
  \E pl \in Platforms, r \in {"ok", "throws"} :
    /\ platform' = pl
    /\ CASE r = "throws" ->
              /\ utterances' = <<>>
              /\ talk' = [talk EXCEPT ![q] = NoTalk]
              /\ Raise("Unable to speak text. Please try again.")
         [] r = "ok" /\ pl = "web" ->
              /\ utterances' = <<text>>
              /\ talk' = [talk EXCEPT ![q] = NoTalk]
              /\ Quiet
         [] OTHER ->
              /\ utterances' = <<>>
              /\ talk' = [talk EXCEPT
                            ![q] = [pc |-> "await_voices", origin |-> origin,
                                    text |-> text]]
              /\ Quiet

\* the texts that have a speaker button: the translation on the main view
\* and the translation of every turn
SpokenTexts ==
  {translatedText} \cup
  {conversationHistory[i].translation : i \in 1..Len(conversationHistory)}

\* a press of a speaker button
onPressSpeak(text) ==
  /\ text \in SpokenTexts
  /\ text # <<>>
  /\ \E q \in Slots : talk[q].pc = "idle"
  /\ speak(NewTalkSlot, "user", text)
  /\ UNCHANGED <<conversationHistory, activeConversationSpeaker,
                 aiConversationMode, conv, tally, isLoading, recording, now,
                 runs>>
  /\ UNCHANGED pipelineVars

\* the setTimeout of generateAIResponse fires: await speak(aiResponse, toLang)
setTimeoutSpeak(q) ==
  /\ talk[q].pc = "timer"
  /\ speak(q, "ai", talk[q].text)
  /\ UNCHANGED <<conversationHistory, activeConversationSpeaker,
                 aiConversationMode, conv, tally, isLoading, recording, now,
                 runs>>
  /\ UNCHANGED pipelineVars

\* after getAvailableVoicesAsync: Speech.speak adds the utterance to the
\* queue of the synthesizer; a rejection lands in the catch
speak_voices(q) ==
  /\ talk[q].pc = "await_voices"
  /\ \E ok \in BOOLEAN :
       IF ok
       THEN /\ utterances' = Append(utterances, talk[q].text)
            /\ Quiet
       ELSE /\ Raise("Unable to speak text. Please try again.")
            /\ UNCHANGED utterances
  /\ talk' = [talk EXCEPT ![q] = NoTalk]
  /\ UNCHANGED <<conversationHistory, activeConversationSpeaker,
                 aiConversationMode, conv, tally, platform, isLoading,
                 recording, now, runs>>
  /\ UNCHANGED pipelineVars

\* the synthesizer has finished the utterance it was playing
utteranceEnd ==
  /\ utterances # <<>>
  /\ utterances' = Tail(utterances)
  /\ Quiet
  /\ UNCHANGED <<conversationHistory, activeConversationSpeaker,
                 aiConversationMode, conv, tally, talk, platform, isLoading,
                 recording, now, runs>>
  /\ UNCHANGED pipelineVars

\* ------------------------------------------------------------------ specification
\* ids the star button of the History view may be pressed with
ToggleIds == {toString(t) : t \in 0..MaxClock}

\* the Live Conversation view
Conversation ==
  \/ \E speaker \in {"A", "B"} : setActiveConversationSpeaker(speaker)
  \/ setAiConversationMode
  \/ clearConversation
  \/ startConversationRecording
  \/ stopConversationRecording
  \/ \E p \in Slots : stopConversationRecording_stopped(p)
  \/ \E p \in Slots : stopConversationRecording_transcribed(p)
  \/ \E p \in Slots : stopConversationRecording_translated(p)
  \/ \E p \in Slots : generateAIResponse_replied(p)
  \/ \E p \in Slots : generateAIResponse_translatedBack(p)

\* the speaker buttons, the delayed speak of a reply and the synthesizer
Speech ==
  \/ \E text \in SpokenTexts : onPressSpeak(text)
  \/ \E q \in Slots : setTimeoutSpeak(q)
  \/ \E q \in Slots : speak_voices(q)
  \/ utteranceEnd

Next ==
  \/ NetInfoChange
  \/ \E t \in {"source", "target"}, l \in SourceChoices \cup TargetChoices :
       onSelectLang(t, l)
  \/ \E t \in TextInputs : setTextToTranslate(t)
  \/ loadHistory
  \/ \E id \in ToggleIds : toggleFavorite(id)
  \/ startRecording
  \/ stopRecording
  \/ \E p \in Slots : stopRecording_stopped(p)
  \/ \E p \in Slots : stopRecording_transcribed(p)
  \/ \E p \in Slots : stopRecording_translated(p)
  \/ \E p \in Slots : stopRecording_tips(p)
  \/ \E p \in Slots : stopRecording_saved(p)
  \/ translateText
  \/ \E p \in Slots : translateText_detected(p)
  \/ \E p \in Slots : translateText_translated(p)
  \/ \E p \in Slots : translateText_tips(p)
  \/ \E p \in Slots : translateText_saved(p)
  \/ pickImageForOCR
  \/ \E p \in Slots : openGallery(p)
  \/ \E p \in Slots : processImageForOCR_extracted(p)
  \/ \E p \in Slots : translateExtractedText_detected(p)
  \/ \E p \in Slots : translateExtractedText_translated(p)
  \/ \E p \in Slots : translateExtractedText_tips(p)
  \/ \E p \in Slots : translateExtractedText_saved(p)
  \/ Conversation
  \/ Speech

Spec == Init /\ [][Next]_vars

\* ---------------------------------------------------------------- scenarios
\* Each scenario is Next with some of the user's gestures left out; the
\* handlers and their continuations are the ones defined above.

\* no handler is between two awaits
Idle == \A p \in Slots : inv[p].kind = "none"

\* the continuations of the three pipelines when the source language is a
\* fixed one
Continuations ==
  \/ \E p \in Slots : stopRecording_stopped(p)
  \/ \E p \in Slots : stopRecording_transcribed(p)
  \/ \E p \in Slots : stopRecording_translated(p)
  \/ \E p \in Slots : stopRecording_tips(p)
  \/ \E p \in Slots : stopRecording_saved(p)
  \/ \E p \in Slots : translateText_translated(p)
  \/ \E p \in Slots : translateText_tips(p)
  \/ \E p \in Slots : translateText_saved(p)
  \/ \E p \in Slots : openGallery(p)
  \/ \E p \in Slots : processImageForOCR_extracted(p)
  \/ \E p \in Slots : translateExtractedText_translated(p)
  \/ \E p \in Slots : translateExtractedText_tips(p)
  \/ \E p \in Slots : translateExtractedText_saved(p)

\* the continuations that follow the detection of the language, which runs
\* when the source language is 'auto'
Detections ==
  \/ \E p \in Slots : translateText_detected(p)
  \/ \E p \in Slots : translateExtractedText_detected(p)

\* the buttons stay enabled while a handler runs: a pipeline may be started
\* while another one is in flight
Overlapping ==
  \/ startRecording
  \/ stopRecording
  \/ translateText
  \/ pickImageForOCR
  \/ Continuations

\* the user starts a pipeline only when the previous one has finished
Sequential ==
  \/ startRecording
  \/ Idle /\ stopRecording
  \/ Idle /\ translateText
  \/ Idle /\ pickImageForOCR
  \/ Continuations

\* overlapping pipelines, the text field and the load at launch
NextOverlap ==
  \/ Overlapping
  \/ \E t \in TextInputs : setTextToTranslate(t)
  \/ loadHistory

SpecOverlap == Init /\ [][NextOverlap]_vars

\* one pipeline at a time, with the two language pickers
NextSettings ==
  \/ Sequential
  \/ Detections
  \/ \E t \in TextInputs : setTextToTranslate(t)
  \/ loadHistory
  \/ \E l \in SourceChoices : onSelectLang("source", l)
  \/ \E l \in TargetChoices : onSelectLang("target", l)

SpecSettings == Init /\ [][NextSettings]_vars

\* one pipeline at a time, with the connectivity signal
NextOffline ==
  \/ Sequential
  \/ \E t \in TextInputs : setTextToTranslate(t)
  \/ loadHistory
  \/ NetInfoChange

SpecOffline == Init /\ [][NextOffline]_vars

\* one pipeline at a time, with the star button of the result card
NextFavorites ==
  \/ Sequential
  \/ \E t \in TextInputs : setTextToTranslate(t)
  \/ loadHistory
  \/ \E id \in ToggleIds : toggleFavorite(id)

SpecFavorites == Init /\ [][NextFavorites]_vars

\* the Live Conversation: turns that may overlap, the speaker and AI
\* buttons, the clear, and the speech
NextConversation == Conversation

SpecConversation == Init /\ [][NextConversation]_vars

\* no stopConversationRecording call is running
ConversationIdle == \A p \in Slots : conv[p].pc = "idle"

\* the speech: turns one after the other with the reply of the AI, the
\* speaker buttons, the delayed speak of the reply and the synthesizer
NextSpeech ==
  \/ startConversationRecording
  \/ ConversationIdle /\ stopConversationRecording
  \/ \E p \in Slots : stopConversationRecording_stopped(p)
  \/ \E p \in Slots : stopConversationRecording_transcribed(p)
  \/ \E p \in Slots : stopConversationRecording_translated(p)
  \/ \E p \in Slots : generateAIResponse_replied(p)
  \/ \E p \in Slots : generateAIResponse_translatedBack(p)
  \/ Speech

SpecSpeech == Init /\ [][NextSpeech]_vars

\* no pipeline and no conversation turn is running
Quiescent == Idle /\ ConversationIdle

\* conversation turns one after the other, with the reply of the AI
SequentialTurns ==
  \/ startConversationRecording
  \/ Quiescent /\ stopConversationRecording
  \/ \E p \in Slots : stopConversationRecording_stopped(p)
  \/ \E p \in Slots : stopConversationRecording_transcribed(p)
  \/ \E p \in Slots : stopConversationRecording_translated(p)
  \/ \E p \in Slots : generateAIResponse_replied(p)
  \/ \E p \in Slots : generateAIResponse_translatedBack(p)

\* the main view and the Live Conversation view, one run at a time, with a
\* text field that may hold a text, spaces or nothing
NextInputs ==
  \/ startRecording
  \/ Quiescent /\ stopRecording
  \/ Quiescent /\ translateText
  \/ Quiescent /\ pickImageForOCR
  \/ Continuations
  \/ \E t \in TextInputs \cup BlankInputs : setTextToTranslate(t)
  \/ SequentialTurns

SpecInputs == Init /\ [][NextInputs]_vars

\* the continuations of the conversation turns
TurnContinuations ==
  \/ \E p \in Slots : stopConversationRecording_stopped(p)
  \/ \E p \in Slots : stopConversationRecording_transcribed(p)
  \/ \E p \in Slots : stopConversationRecording_translated(p)
  \/ \E p \in Slots : generateAIResponse_replied(p)
  \/ \E p \in Slots : generateAIResponse_translatedBack(p)

\* SpecInputs where every awaited call settles: the promise of a call that
\* is awaited resolves or rejects, and the continuation then runs
SpecInputsFair ==
  SpecInputs /\ WF_vars(Continuations) /\ WF_vars(TurnContinuations)

\* the Live Conversation with the speaker buttons and the two language
\* pickers, one turn at a time
NextLanguages ==
  \/ SequentialTurns
  \/ \E speaker \in {"A", "B"} : setActiveConversationSpeaker(speaker)
  \/ \E l \in SourceChoices : onSelectLang("source", l)
  \/ \E l \in TargetChoices : onSelectLang("target", l)

SpecLanguages == Init /\ [][NextLanguages]_vars

\* ------------------------------------------------------------------ properties
\* the step in which invocation p builds its record and sets the history
Appends(p) == inv[p].pc = "await_tips" /\ inv'[p].pc = "await_save"

\* the text invocation p translates: transcribed, entered or extracted
SourceText(p) ==
  IF inv[p].kind = "text" THEN inv[p].textToTranslate ELSE inv[p].text

\* the Alert.alert of the catch block of each pipeline
FailureAlert(kind) ==
  CASE kind = "voice" -> "Failed to process audio. Check your API key and network."
    [] kind = "text" -> "Failed to translate text. Check your API key and network."
    [] OTHER -> "Failed to translate extracted text."

\* C1: when the three calls of a run have succeeded, the step that appends
\* sets the history to one new record followed by the history of the moment
\* the run was triggered; the record is not a favorite and holds the source
\* text, the translation and the tips of the run, which are the ones on
\* display, and the target language that was configured at the trigger.
\* From then to the end of the run the history stays as it is, once the
\* load at launch is over.
C1_SuccessfulRunAppendsOneRecord ==
  [][\A p \in Slots :
       /\ Appends(p) =>
            LET r == history'[1] IN
              /\ history' = <<r>> \o inv[p].hist0
              /\ r.isFavorite = FALSE
              /\ r.transcribedText = SourceText(p)
              /\ r.transcribedText = transcribedText'
              /\ r.translatedText = inv[p].translated
              /\ r.translatedText = translatedText'
              /\ r.culturalTips = inv'[p].tips
              /\ r.culturalTips = culturalTips'
              /\ r.targetLang = inv[p].targetLang
       /\ (inv[p].pc = "await_save" /\ load.pc = "done") =>
            history' = history]_vars

\* a run has appended its record in front of an older one, with the target
\* language the user had picked
C1_Witness ==
  \E p \in Slots :
    /\ inv[p].pc = "await_save"
    /\ Len(inv[p].hist0) > 0
    /\ history = <<history[1]>> \o inv[p].hist0
    /\ history[1].targetLang = fr
    /\ history[1].culturalTips # <<>>

\* C2: no record of the history in memory, and no record stored under either
\* key, has the source language 'auto'.
C2_NoAutoStored ==
  /\ \A i \in 1..Len(history) : history[i].sourceLang # auto
  /\ \A k \in StorageKeys :
       storage[k].present =>
         \A i \in 1..Len(storage[k].json) :
           JSONparse(storage[k].json)[i].sourceLang # auto

\* the awaits of the calls to the generative model
GatewayAwaits ==
  {"await_transcribe", "await_extract", "await_detect", "await_translate",
   "await_tips"}

\* C3: a step that issues a call to the generative model is taken only while
\* the device is online.
C3_NoCallWhileOffline ==
  [][\A p \in Slots :
       (inv'[p].pc \in GatewayAwaits /\ inv'[p].pc # inv[p].pc) => ~isOffline]_vars

\* the translation call of invocation p rejects
TranslationFailed(p) == inv[p].pc = "await_translate" /\ inv'[p].kind = "none"

\* C4: when the translation call of a run rejects, the history in memory and
\* the storage are left as they are and the source text of the run is still
\* on display: the transcript (voice), the entered text (text) or the
\* extracted text (image).
C4_TranslationFailureKeepsTranscript ==
  [][\A p \in Slots :
       TranslationFailed(p) =>
         /\ history' = history
         /\ storage' = storage
         /\ alert' = FailureAlert(inv[p].kind)
         /\ SourceText(p) # <<>>
         /\ inv[p].kind = "voice" =>
              /\ transcribedText' = inv[p].text
              /\ \E t \in TranscribeOut : inv[p].text = Trim(t)
         /\ inv[p].kind = "text" => transcribedText' = inv[p].textToTranslate
         /\ inv[p].kind = "image" => ocrText' = inv[p].text]_vars

\* a voice run has failed at the translation: the transcript is displayed,
\* without a translation, and nothing was recorded
C4_Witness ==
  /\ Idle
  /\ alert = "Failed to process audio. Check your API key and network."
  /\ transcribedText # <<>>
  /\ translatedText = <<>>
  /\ history = <<>>
  /\ ~storage[HistoryKey].present

\* invocation p takes a step after its tips call has settled
TipsSettled(p) == inv[p].pc = "await_tips" /\ inv'[p] # inv[p]

\* C5 (as stated): whatever the outcome of the tips call, the run goes on:
\* a record is appended, with no tips when the call has failed, and no
\* failure is shown.
C5_TipsFailureDowngraded ==
  [][\A p \in Slots :
       TipsSettled(p) =>
         /\ inv'[p].pc = "await_save"
         /\ Len(history') = Len(inv[p].history) + 1
         /\ history'[1].translatedText = inv[p].translated
         /\ alert' = "none"]_vars

\* C5 (amended): the tips call is inside the try block of the pipeline.  When
\* it resolves, the appended record holds the tips it returned; when it
\* rejects, the run is aborted: nothing is appended to the history or written
\* to the storage, and the failure alert of the pipeline is shown.
C5_TipsFailureAborts ==
  [][\A p \in Slots :
       TipsSettled(p) =>
         \/ /\ inv'[p].pc = "await_save"
            /\ \E t \in TipsOut :
                 history'[1].culturalTips =
                   IF inv[p].kind = "image" THEN CleanTipsOCR(t)
                   ELSE CleanTips(t)
            /\ history'[1].culturalTips # <<>>
            /\ alert' = "none"
         \/ /\ inv'[p] = NoInv
            /\ history' = history
            /\ storage' = storage
            /\ alert' = FailureAlert(inv[p].kind)
            /\ ~isLoading']_vars

\* a voice run has failed at the tips: the translation is displayed without
\* tips, the alert is up and nothing was recorded
C5_Witness ==
  /\ Idle
  /\ alert = "Failed to process audio. Check your API key and network."
  /\ translatedText # <<>>
  /\ culturalTips = <<>>
  /\ history = <<>>
  /\ ~storage[HistoryKey].present

\* C6: when 'auto' was configured at the trigger of a run that appends, the
\* source language of the appended record is the answer of the detection
\* call, trimmed and lower-cased, and it is the language the translation
\* call of the run was issued with.
C6_AutoRecordsDetectedLang ==
  [][\A p \in Slots :
       (Appends(p) /\ inv[p].sourceLang = auto) =>
         /\ \E d \in DetectOut : history'[1].sourceLang = ToLowerCase(Trim(d))
         /\ history'[1].sourceLang = inv[p].lang]_vars

\* what loadHistory would read at the next start of the app
LoadResult(store) ==
  IF store[HistoryKey].present THEN JSONparse(store[HistoryKey].json)
  ELSE <<>>

\* C7: when a run appends a record and its storage write is done, a load of
\* the history returns a sequence whose first element is that record.
C7_RoundTrip ==
  [][\A p \in Slots :
       (Appends(p) /\ inv'[p].writeOk) =>
         /\ Len(LoadResult(storage')) > 0
         /\ LoadResult(storage')[1] = history'[1]]_vars

\* the record is the same one, whatever its star
SameRecord(a, b) ==
  /\ a.id = b.id
  /\ a.transcribedText = b.transcribedText
  /\ a.translatedText = b.translatedText
  /\ a.culturalTips = b.culturalTips
  /\ a.sourceLang = b.sourceLang
  /\ a.targetLang = b.targetLang
  /\ a.timestamp = b.timestamp

\* C8: no step removes or replaces a record of the history in memory.
C8_AppendOnly ==
  [][\A i \in 1..Len(history) :
       \E j \in 1..Len(history') : SameRecord(history[i], history'[j])]_vars

\* C9: a press of the star with an id keeps the length and the order of the
\* history and every field of every record but isFavorite, flips isFavorite
\* of the records with that id and keeps it for the others; with no record
\* of that id the history is unchanged.  Nothing else of the screen changes.
C9_ToggleFavoriteFrame ==
  [][\A id \in ToggleIds :
       toggleFavorite(id) =>
         /\ Len(history') = Len(history)
         /\ \A i \in 1..Len(history) :
              /\ SameRecord(history[i], history'[i])
              /\ history'[i].isFavorite =
                   IF history[i].id = id THEN ~history[i].isFavorite
                   ELSE history[i].isFavorite
         /\ (\A i \in 1..Len(history) : history[i].id # id) =>
              history' = history
         /\ UNCHANGED <<transcribedText, translatedText, culturalTips,
                        ocrText, sourceLang, targetLang, textToTranslate,
                        inv>>]_vars

\* the star of the older record was switched off next to a new record of
\* another id, which kept its own
C9_Witness ==
  /\ Len(history) = 2
  /\ history[2].id = toString(0)
  /\ ~history[2].isFavorite
  /\ history[1].id # toString(0)
  /\ ~history[1].isFavorite
  /\ LoadResult(storage) = history

\* C10 (as stated): after a press of the star with an id, a second press
\* with the same id leaves the records of that id with isFavorite = true
\* and the number of records as it was.
C10_MarkTwiceIsFavorite ==
  [][\A id \in ToggleIds :
       toggleFavorite(id) =>
         /\ Len(ToggleMap(history', id)) = Len(history)
         /\ \A i \in 1..Len(history) :
              history[i].id = id => ToggleMap(history', id)[i].isFavorite]_vars

\* C10 (amended): the operation flips the star, so a second press with the
\* same id gives back the history of before the first one: isFavorite of the
\* record is what it was and the number of records is unchanged.
C10_ToggleTwiceRestores ==
  [][\A id \in ToggleIds :
       toggleFavorite(id) =>
         /\ Len(ToggleMap(history', id)) = Len(history)
         /\ ToggleMap(history', id) = history
         /\ \A i \in 1..Len(history) :
              history[i].id = id =>
                history'[i].isFavorite # history[i].isFavorite]_vars

\* a record appended by a run, which starts without a star, has got one
C10_Witness ==
  \E i \in 1..Len(history) :
    /\ history[i].id # toString(0)
    /\ history[i].isFavorite
    /\ LoadResult(storage) = history

\* ------------------------------------------------------------------ conversation
\* the ids of a sequence of records or of turns are pairwise distinct
DistinctIds(h) == \A i, j \in 1..Len(h) : i # j => h[i].id # h[j].id

\* C11: in every reachable state the records of the history have pairwise
\* distinct ids and the turns of the conversation have pairwise distinct
\* ids, with a clock that never goes back but may give the same value twice
\* and with Date.now() + 1 for the id of a turn of the AI.
C11_IdsNeverReused == DistinctIds(history) /\ DistinctIds(conversationHistory)

\* call p of stopConversationRecording ends before it has appended its turn:
\* no audio, or the fetch, the transcription or the translation has failed
ConversationFailed(p) ==
  /\ conv[p].pc \in {"await_stop", "await_transcribe", "await_translate"}
  /\ conv'[p].pc = "idle"
  /\ tally'.humans = tally.humans

\* C12: when the fetch of the audio, the transcription or the translation of
\* a conversation turn fails, the failure is shown to the user and the step
\* leaves the sequence of turns as it is: no turn of the speaker and no turn
\* of the AI is appended, and no speech is scheduled.
C12_ConversationFailureReported ==
  [][\A p \in Slots :
       ConversationFailed(p) =>
         /\ alert' \in {"Failed to process audio. Check your API key and network.",
                        "No audio recorded."}
         /\ conversationHistory' = conversationHistory
         /\ talk' = talk]_vars

\* a second turn has failed with the alert of the catch block: the sequence
\* holds the turn of the first and nothing else
C12_Witness ==
  /\ ConversationIdle
  /\ runs = 2
  /\ alert = "Failed to process audio. Check your API key and network."
  /\ Len(conversationHistory) = 1
  /\ tally = [humans |-> 1, withAI |-> 0, cleared |-> FALSE]

\* call p ends in the catch block of generateAIResponse: the reply call or
\* the back translation has failed (a reply that succeeds schedules speak)
ReplyFailed(p) ==
  /\ conv[p].pc \in {"await_reply", "await_translateBack"}
  /\ conv'[p].pc = "idle"
  /\ talk' = talk

\* C13: with the AI mode on, when the reply call or the back translation
\* fails, the step leaves the sequence of turns as it is (the turn of the
\* speaker stays and no turn of the AI is appended) and shows no error.
C13_ReplyFailureSwallowed ==
  [][\A p \in Slots :
       ReplyFailed(p) =>
         /\ conversationHistory' = conversationHistory
         /\ alert' = "none"
         /\ conv[p].aiMode]_vars

\* one turn with the AI mode on whose reply has failed: the sequence holds
\* the turn of the speaker alone and nothing is to be spoken
C13_Witness ==
  /\ ConversationIdle
  /\ runs = 1
  /\ alert = "none"
  /\ Len(conversationHistory) = 1
  /\ conversationHistory[1].speaker = "A"
  /\ tally = [humans |-> 1, withAI |-> 1, cleared |-> FALSE]
  /\ \A q \in Slots : talk[q].pc = "idle"

\* call p appends the turn of the AI
AIAppends(p) ==
  /\ conv[p].pc = "await_translateBack"
  /\ Len(conversationHistory') = Len(conversationHistory) + 1

\* C14: every turn of the AI comes right after the turn of the speaker it
\* answers, with the opposite speaker, under any interleaving of turns,
\* speaker switches and clears: at the step that appends it, the last turn
\* of the sequence is the turn its call has appended.  (Later steps append
\* or empty the sequence, so they keep the two turns next to each other.)
C14_AITurnFollowsItsHumanTurn ==
  [][\A p \in Slots :
       AIAppends(p) =>
         /\ conversationHistory # <<>>
         /\ conversationHistory[Len(conversationHistory)] = conv[p].item
         /\ conversationHistory'[Len(conversationHistory')].speaker =
              Opposite(conv[p].item.speaker)]_vars

\* C15: along the sequence of turns the timestamps are strictly increasing,
\* with a clock that never goes back and Date.now() + 1 for the timestamp
\* of a turn of the AI.
C15_TimestampsIncrease ==
  \A i \in 1..(Len(conversationHistory) - 1) :
    conversationHistory[i].timestamp < conversationHistory[i + 1].timestamp

\* C16: as long as the conversation has not been cleared, after N turns of
\* the speakers have been appended the sequence holds at least N turns and
\* at most N plus one turn for each of them that was triggered with the AI
\* mode on, so at most 2N; when all N were triggered with the AI mode off it
\* holds exactly N.
C16_LengthBounds ==
  ~tally.cleared =>
    /\ tally.humans <= Len(conversationHistory)
    /\ Len(conversationHistory) <= tally.humans + tally.withAI
    /\ Len(conversationHistory) <= 2 * tally.humans
    /\ tally.withAI = 0 => Len(conversationHistory) = tally.humans

\* two turns with the AI mode on are over, one reply has been appended and
\* one has failed: three turns
C16_Witness ==
  /\ ConversationIdle
  /\ tally = [humans |-> 2, withAI |-> 2, cleared |-> FALSE]
  /\ Len(conversationHistory) = 3

\* call p builds the context and issues the reply call
IssuesReply(p) == conv[p].pc = "await_translate" /\ conv'[p].pc = "await_reply"

\* C17: the context given to the reply call is made of the last four turns
\* of the sequence of turns (all of them when there are fewer), in the order
\* of the sequence, one line for each with its translation: the sequence
\* taken either before or after the turn of the speaker is appended.
C17_ContextIsLastFourTurns ==
  [][\A p \in Slots :
       IssuesReply(p) =>
         conv'[p].context \in {Context(conversationHistory),
                               Context(conversationHistory')}]_vars

\* ------------------------------------------------------------------ speech
\* the speak call of slot q, scheduled after a reply of the AI, takes a step:
\* the timer fires or the voice lookup settles
DelayedSpeakSteps(q) == talk[q].origin = "ai" /\ talk'[q] # talk[q]

\* C18: a failure of the speech is shown only when speak was called from a
\* speaker button: no step of the speak call that follows a reply of the AI
\* raises an alert, and none changes the sequence of turns.
C18_DelayedSpeakFailureSilent ==
  [][\A q \in Slots :
       DelayedSpeakSteps(q) =>
         /\ alert' = "none"
         /\ conversationHistory' = conversationHistory]_vars

\* C19: at any time at most one utterance is playing or waiting in the
\* synthesizer, under any interleaving of the speak calls of the speaker
\* buttons and of the replies of the AI.
C19_AtMostOneUtterance == Len(utterances) <= 1

\* ------------------------------------------------------------------ storage
\* invocation p ends after the write of the history has been rejected
WriteFailed(p) ==
  /\ inv[p].pc = "await_save"
  /\ ~inv[p].writeOk
  /\ inv'[p].kind = "none"

\* C20: when the write of the history is rejected during an append, in the
\* voice, text and image pipelines alike, the run ends without an alert, the
\* history in memory is left with the record it has got, and the results on
\* display stay.
C20_WriteFailureSwallowed ==
  [][\A p \in Slots :
       WriteFailed(p) =>
         /\ alert' = "none"
         /\ history' = history
         /\ history # <<>>
         /\ translatedText' = translatedText
         /\ culturalTips' = culturalTips
         /\ ~isLoading']_vars

\* ------------------------------------------------------------------ inputs
\* the voice run p or the conversation turn p ends right after the recorder
\* has stopped: there is no audio, or the audio file cannot be read
EndsAtCapture(p) ==
  \/ inv[p].kind = "voice" /\ inv[p].pc = "await_stop" /\ inv'[p].kind = "none"
  \/ conv[p].pc = "await_stop" /\ conv'[p].pc = "idle"

\* no pipeline and no turn of the next state waits for a call it did not
\* wait for already
NoNewCall ==
  /\ \A p \in Slots : inv'[p].kind # "none" => inv'[p] = inv[p]
  /\ \A p \in Slots : conv'[p].pc # "idle" => conv'[p] = conv[p]

\* C21: a press of Translate with a text field that is empty or holds only
\* spaces shows 'Please enter some text to translate.', and a recording that
\* ends without audio shows an error, in the main view and in the Live
\* Conversation alike; no call of the generative model is issued and the
\* history, the storage and the sequence of turns are left as they are.
C21_InputErrorFailsFast ==
  [][/\ (translateText /\ Trim(textToTranslate) = <<>>) =>
          /\ alert' = "Please enter some text to translate."
          /\ NoNewCall
          /\ runs' = runs
          /\ history' = history
          /\ storage' = storage
          /\ conversationHistory' = conversationHistory
     /\ \A p \in Slots :
          EndsAtCapture(p) =>
            /\ alert' \in {"No audio recorded.",
                           "Failed to process audio. Check your API key and network."}
            /\ NoNewCall
            /\ history' = history
            /\ storage' = storage
            /\ conversationHistory' = conversationHistory]_vars

\* a press of Translate on a field of spaces has been refused
C21_Witness ==
  /\ textToTranslate \in BlankInputs
  /\ alert = "Please enter some text to translate."
  /\ Quiescent
  /\ runs = 0

\* ------------------------------------------------------------------ empty results
\* C22: an empty answer of a required call (transcription, extraction,
\* detection, translation) ends the run at that stage: no run waits for a
\* later call with an empty transcript, extracted text, language or
\* translation in hand, and no record and no turn holds an empty source text
\* or an empty translation.
C22_EmptyResultAborts ==
  /\ \A p \in Slots :
       /\ conv[p].pc \in {"await_translate", "await_reply", "await_translateBack"}
            => conv[p].text # <<>>
       /\ conv[p].pc \in {"await_reply", "await_translateBack"}
            => conv[p].translated # <<>>
       /\ (inv[p].kind \in {"voice", "image"}
           /\ inv[p].pc \in {"await_detect", "await_translate", "await_tips",
                             "await_save"})
            => inv[p].text # <<>>
       /\ (inv[p].kind \in {"text", "image"}
           /\ inv[p].pc \in {"await_translate", "await_tips", "await_save"})
            => inv[p].lang # <<>>
       /\ inv[p].pc \in {"await_tips", "await_save"} => inv[p].translated # <<>>
  /\ \A i \in 1..Len(conversationHistory) :
       /\ conversationHistory[i].text # <<>>
       /\ conversationHistory[i].translation # <<>>
  /\ \A i \in 1..Len(history) :
       /\ history[i].transcribedText # <<>>
       /\ history[i].translatedText # <<>>

\* ------------------------------------------------------------------ display
\* run p of a pipeline ends in a catch block while one of its calls of the
\* generative model is awaited
RunFailed(p) ==
  /\ inv[p].pc \in GatewayAwaits
  /\ inv'[p].kind = "none"
  /\ alert' # "none"

\* C23: when a run of the voice, text or image pipeline has failed, the
\* transcript, the translation and the tips on display are each empty or
\* the output of a stage of that run: nothing of an earlier run is shown.
C23_FailureShowsOwnStagesOnly ==
  [][\A p \in Slots :
       RunFailed(p) =>
         /\ transcribedText' \in {<<>>, inv[p].text, inv[p].textToTranslate}
         /\ translatedText' \in {<<>>, inv[p].translated}
         /\ culturalTips' \in {<<>>, inv[p].tips}]_vars

\* ------------------------------------------------------------------ in flight
\* the runs of the pipelines and the conversation turns that are between
\* their first call of the generative model and their end
PipelinesInChain ==
  {p \in Slots : inv[p].pc \in GatewayAwaits \cup {"await_save"}}
TurnsInChain ==
  {p \in Slots : conv[p].pc \in {"await_transcribe", "await_translate",
                                 "await_reply", "await_translateBack"}}

\* C24: the control that starts a pipeline is disabled while a run is in
\* flight, so that at any time at most one run of the translation and
\* conversation pipelines is in its chain of calls.
C24_AtMostOneInFlight ==
  Cardinality(PipelinesInChain) + Cardinality(TurnsInChain) <= 1

\* ------------------------------------------------------------------ termination
\* the gestures of the user on the two views
Gestures ==
  \/ startRecording
  \/ stopRecording
  \/ translateText
  \/ pickImageForOCR
  \/ \E t \in TextInputs \cup BlankInputs : setTextToTranslate(t)
  \/ startConversationRecording
  \/ stopConversationRecording

\* C25: when every call that is awaited settles, a run that is in its chain
\* of calls reaches its end, by completion or by failure; the step that ends
\* it sets to false the flag the run has set (isLoading; isProcessingOCR for
\* an image, and isLoading too once the translation of the extracted text
\* has started); and no gesture of the user changes or ends a run that is in
\* its chain.
C25_RunsEndAndResetFlags ==
  /\ \A p \in Slots : (p \in PipelinesInChain) ~> (inv[p].kind = "none")
  /\ \A p \in Slots : (p \in TurnsInChain) ~> (conv[p].pc = "idle")
  /\ [][\A p \in Slots :
          /\ (p \in PipelinesInChain /\ inv'[p].kind = "none") =>
               /\ inv[p].kind = "image" => ~isProcessingOCR'
               /\ inv[p].pc # "await_extract" => ~isLoading'
          /\ (p \in TurnsInChain /\ conv'[p].pc = "idle") => ~isLoading'
          /\ (Gestures /\ p \in PipelinesInChain) => inv'[p] = inv[p]
          /\ (Gestures /\ p \in TurnsInChain) => conv'[p] = conv[p]]_vars

\* two runs are over, the second one an image run that failed after its
\* translation had started: both flags are down
C25_Witness ==
  /\ Quiescent
  /\ runs = 2
  /\ alert = "Failed to translate extracted text."
  /\ ocrText # <<>>
  /\ ~isLoading
  /\ ~isProcessingOCR

\* ------------------------------------------------------------------ languages
\* the turn of call p is appended
HumanAppends(p) ==
  /\ conv[p].pc = "await_translate"
  /\ Len(conversationHistory') = Len(conversationHistory) + 1

\* C26: a conversation turn works with the speaker and the two languages of
\* the moment it was triggered: fromLang is the source language when that
\* speaker is A and the target language when it is B, toLang is the other
\* one, the turn it appends has that speaker, and none of them changes while
\* the turn is in flight, whatever the speaker buttons and the language
\* pickers do.
C26_TurnLanguagesFollowSpeaker ==
  [][\A p \in Slots :
       /\ (conv[p].pc = "idle" /\ conv'[p].pc = "await_stop") =>
            /\ conv'[p].speaker = activeConversationSpeaker
            /\ conv'[p].sourceLang = sourceLang
            /\ conv'[p].targetLang = targetLang
       /\ (conv[p].pc # "idle" /\ conv'[p].pc # "idle") =>
            /\ conv'[p].speaker = conv[p].speaker
            /\ conv'[p].sourceLang = conv[p].sourceLang
            /\ conv'[p].targetLang = conv[p].targetLang
       /\ (p \in TurnsInChain /\ conv'[p].pc # "idle") =>
            /\ conv'[p].fromLang = conv[p].fromLang
            /\ conv'[p].toLang = conv[p].toLang
       /\ (conv[p].pc = "await_stop" /\ conv'[p].pc = "await_transcribe") =>
            /\ conv[p].speaker = "A" =>
                 /\ conv'[p].fromLang = conv[p].sourceLang
                 /\ conv'[p].toLang = conv[p].targetLang
            /\ conv[p].speaker = "B" =>
                 /\ conv'[p].fromLang = conv[p].targetLang
                 /\ conv'[p].toLang = conv[p].sourceLang
       /\ HumanAppends(p) =>
            conversationHistory'[Len(conversationHistory')].speaker =
              conv[p].speaker]_vars

\* a turn triggered by speaker B with the pair en / fr is in flight, from fr
\* to en, while the active speaker is A again and the target language es
C26_Witness ==
  \E p \in Slots :
    /\ conv[p].pc = "await_translate"
    /\ conv[p].speaker = "B"
    /\ conv[p].fromLang = fr
    /\ conv[p].toLang = en
    /\ activeConversationSpeaker = "A"
    /\ targetLang = es

\* ------------------------------------------------------------------ clear
\* C27: the confirmed clear empties the sequence of turns, and a call that
\* was in flight when the conversation was cleared appends nothing
\* afterwards, neither the turn of the speaker nor the turn of the AI.
C27_ClearedCallsAppendNothing ==
  [][/\ clearConversation => conversationHistory' = <<>>
     /\ \A p \in Slots :
          (conv[p].cleared /\ conv'[p] # conv[p]) =>
            Len(conversationHistory') <= Len(conversationHistory)]_vars

\* ------------------------------------------------------------------ favorites in flight
\* the history of the moment run p appends holds the records its closure
\* holds, in the same order: only stars may differ
OnlyStarsDiffer(p) ==
  /\ Len(history) = Len(inv[p].history)
  /\ \A i \in 1..Len(history) : history[i].id = inv[p].history[i].id

\* C28: a star set or removed by toggleFavorite while a run is in flight is
\* kept when the run appends its record: after the append every older
\* record has the isFavorite it had just before, in memory and, when the
\* write is done, in the stored history.
C28_ToggleSurvivesAppend ==
  [][\A p \in Slots :
       (Appends(p) /\ OnlyStarsDiffer(p)) =>
         /\ Len(history') = Len(history) + 1
         /\ \A i \in 1..Len(history) :
              history'[i + 1].isFavorite = history[i].isFavorite
         /\ (inv'[p].writeOk /\ inv[p].kind # "image") =>
              LoadResult(storage') = history']_vars

\* ------------------------------------------------------------------ load at launch
\* the record that was stored before the app started is in the sequence
HasOldItem(h) == \E i \in 1..Len(h) : SameRecord(h[i], OldItem)

\* C29: an append by a run that was triggered before the load at launch has
\* returned discards nothing: no step takes the record that was stored
\* before the start out of the stored history or out of the history in
\* memory, so that once the load and the run are over both hold it next to
\* the new record.
C29_AppendKeepsStoredHistory ==
  [][/\ HasOldItem(LoadResult(storage)) => HasOldItem(LoadResult(storage'))
     /\ HasOldItem(history) => HasOldItem(history')]_vars

\* ------------------------------------------------------------------ loading flag
\* the runs that have called setIsLoading(true) and are not over: every run
\* in its chain but an image run whose extraction is awaited, which shows
\* isProcessingOCR instead
LoadingRuns ==
  {p \in PipelinesInChain : inv[p].pc # "await_extract"} \cup TurnsInChain

\* C30: in every reachable state isLoading is true exactly when a run of a
\* translation or conversation pipeline is in its chain of calls: the end of
\* one run does not take the flag down while another run is in flight.
C30_LoadingFlagAccurate == isLoading <=> LoadingRuns # {}

====
